---- MODULE Spec2Model ----
(***************************************************************************)
(* State-machine model of the roguelike of src/src/main.rs: the entity     *)
(* collection, the inventory, the message log, the field-of-view map and   *)
(* the game loop (render_all, handle_keys, the monster loop): Spec.        *)
(* make_map's loop is SpecMap; Object::attack, the tunnel functions, the   *)
(* targeted scrolls and ai_basic are also run on their own inputs          *)
(* (SpecAttack, SpecTunnel, SpecCast, SpecAi).                             *)
(*                                                                         *)
(* Vectors are TLA+ sequences read through At/Upd with the 0-based indices *)
(* of the source (PLAYER = 0).  Option<T> is a sequence of length 0 (None) *)
(* or 1 (Some).  Squared distances stand for the f32 distances: sqrt is    *)
(* monotonic, so d >= 2.0 is d2 >= 4 and d < r is d2 < r*r.                *)
(***************************************************************************)
EXTENDS FiniteSets, Integers, Sequences, TLC

VARIABLES
    map,                        \* game.map: <<x, y>> -> Tile
    objects,                    \* the entity collection (Vec<Object>)
    inventory,                  \* game.inventory (Vec<Object>)
    messages,                   \* game.messages: the entries added by the last step
    fov,                        \* tcod.fov: the set of tiles in the field of view
    fov_origin,                 \* history: the origin of the last compute_fov
    previous_player_position,   \* main's local of the same name
    player_action,              \* main's local: the result of the last handle_keys
    pc,                         \* position in main: "render", "keys", "monsters", "done"
    id,                         \* the monster loop's index
    ev,                         \* history: what the last step did (see NoEv)
    deaths,                     \* history: uid -> number of runs of its on_death callback
    stepped,                    \* history: uids stepped by ai_take_turn in this monster phase
    order,                      \* history: pairs <<a, b>>: a was stepped before b in a past phase
    conf,                       \* history: uid -> the last confusion not yet expired
    rooms,                      \* make_map's local: the rooms accepted so far
    tunnels                     \* history: the tunnel segments carved by make_map

vars == <<map, objects, inventory, messages, fov, fov_origin,
          previous_player_position, player_action, pc, id, ev, deaths,
          stepped, order, conf, rooms, tunnels>>

\* ------------------------------------------------------------- constants

PLAYER == 0
HEAL_AMOUNT == 4
LIGHTNING_DAMAGE == 40
LIGHTNING_RANGE == 5
CONFUSE_RANGE == 8
CONFUSE_NUM_TURNS == 10
TORCH_RADIUS == 10
INVENTORY_CAPACITY == 26

\* The grid of the model: the source's 80 x 43 map scaled down.
MAP_WIDTH == 5
MAP_HEIGHT == 4

\* Inventory entries held when the late-session scenario starts.
CarriedItems == 25

\* make_map is run on a grid of its own, wide enough for two rooms, with the
\* source's room sizes, room count and per-room draws scaled down.
GEN_MAP_WIDTH == 7
GEN_MAP_HEIGHT == 4
ROOM_MIN_SIZE == 2
ROOM_MAX_SIZE == 3
MAX_ROOMS == 2
MAX_ROOM_MONSTERS == 1
MAX_ROOM_ITEMS == 1

\* The room in which the targeted scrolls are cast on their own: Rect::new(0,
\* 0, CastRoomWidth, CastRoomHeight), narrower than the source's widest room.
CastRoomWidth == 7
CastRoomHeight == 3

\* ------------------------------------------------------- Option and Vec

None == <<>>
Some(v) == <<v>>
is_some(o) == o # <<>>
unwrap(o) == o[1]

At(v, i) == v[i + 1]
Upd(v, i, e) == [v EXCEPT ![i + 1] = e]
Ids(v) == 0 .. (Len(v) - 1)
MinOf(S) == CHOOSE m \in S : \A n \in S : m <= n

\* Vec::swap_remove: the last element takes the place of the removed one.
swap_remove(v, i) ==
    LET n == Len(v)
    IN  IF i = n - 1 THEN SubSeq(v, 1, n - 1)
        ELSE SubSeq([v EXCEPT ![i + 1] = v[n]], 1, n - 1)

remove_last(v, i) == SubSeq(v, 1, Len(v) - 1)

\* Vec::remove: the elements after i shift down by one.
remove(v, i) == SubSeq(v, 1, i) \o SubSeq(v, i + 2, Len(v))

\* --------------------------------------------------------- tiles and map

Tile_empty == [blocked |-> FALSE, block_sight |-> FALSE]
Tile_wall == [blocked |-> TRUE, block_sight |-> TRUE]

Tiles == (0 .. (MAP_WIDTH - 1)) \X (0 .. (MAP_HEIGHT - 1))

\* ------------------------------------------------------------- entities

Fighter(max_hp, hp, defense, power, on_death) ==
    [max_hp |-> max_hp, hp |-> hp, defense |-> defense, power |-> power,
     on_death |-> on_death]

Ai_Basic == [kind |-> "Basic"]
Ai_Confused(previous_ai, num_turns) ==
    [kind |-> "Confused", previous_ai |-> previous_ai, num_turns |-> num_turns]

\* Object::new; uid is the model's name for the entity (its index may change).
Object_new(uid, x, y, char, name, color, blocks) ==
    [uid |-> uid, x |-> x, y |-> y, char |-> char, color |-> color,
     name |-> name, blocks |-> blocks, alive |-> FALSE,
     fighter |-> None, ai |-> None, item |-> None]

pos(o) == <<o.x, o.y>>
set_pos(o, x, y) == [o EXCEPT !.x = x, !.y = y]

\* ------------------------------------------------- the step's world value
\* The operators below thread a record w = [objects, inventory, messages, ev]
\* through the calls of one handler.  ev is the list of things the handler
\* did, in order: [e, a, b, n] with e the event, a and b uids (-1: none).

NoEv == <<>>
Event(e, a, b, n) == [e |-> e, a |-> a, b |-> b, n |-> n]
Log(w, e) == [w EXCEPT !.ev = Append(@, e)]
Msg(fmt, args) == [fmt |-> fmt, args |-> args]
\* Messages::add
add(w, m) == [w EXCEPT !.messages = Append(@, m)]

\* --------------------------------------------------- combat (lines 82-128)

\* player_death: the player becomes a corpse glyph; nothing else changes.
player_death(w, i) ==
    LET w1 == add(w, Msg("You died!", <<>>))
        o == At(w1.objects, i)
    IN  [w1 EXCEPT !.objects = Upd(@, i, [o EXCEPT !.char = "%", !.color = "DARKER_RED"])]

monster_death_still_blocking(w, i) ==
    LET o == At(w.objects, i)
    IN  [w EXCEPT !.messages = Append(@, [fmt |-> "{} is dead!", args |-> <<o.name>>]),
                  !.objects = Upd(@, i,
                      [o EXCEPT !.char = "%", !.color = "DARKER_RED",
                                !.fighter = <<>>, !.ai = <<>>,
                                !.name = "remains of " \o o.name])]

\* monster_death: the monster becomes a corpse that does not block, fight or act.
monster_death(w, i) ==
    LET o == At(w.objects, i)
        w1 == add(w, Msg("{} is dead!", <<o.name>>))
    IN  [w1 EXCEPT !.objects = Upd(@, i,
            [o EXCEPT !.char = "%", !.color = "DARKER_RED", !.blocks = FALSE,
                      !.fighter = None, !.ai = None,
                      !.name = "remains of " \o o.name])]

\* DeathCallback::callback: dispatch on the tag; the run is recorded in ev.
callback(cb, w, i) ==
    LET w1 == Log(w, Event("on_death", At(w.objects, i).uid, -1, 0))
    IN  IF cb = "Player" THEN player_death(w1, i) ELSE monster_death(w1, i)

take_damage_no_death(w, i, damage) ==
    [w EXCEPT !.objects = Upd(@, i,
        [At(@, i) EXCEPT !.fighter = IF @ = <<>> THEN <<>>
                                     ELSE <<[@[1] EXCEPT !.hp = @ - damage]>>])]

\* Object::take_damage on objects[i].
take_damage(w, i, damage) ==
    LET self == At(w.objects, i)
        hit == IF is_some(self.fighter)
               THEN [self EXCEPT !.fighter = Some([unwrap(@) EXCEPT !.hp = @ - damage])]
               ELSE self
        w1 == IF is_some(self.fighter)
              THEN Log([w EXCEPT !.objects = Upd(@, i, hit)],
                       Event("take_damage", self.uid, -1, unwrap(hit.fighter).hp))
              ELSE w
    IN  IF is_some(hit.fighter) /\ unwrap(hit.fighter).hp <= 0
        THEN callback(unwrap(hit.fighter).on_death,
                      [w1 EXCEPT !.objects = Upd(@, i, [hit EXCEPT !.alive = FALSE])], i)
        ELSE w1

\* fighter.map_or(0, |f| f.power) and fighter.map_or(0, |f| f.defense)
power_of(o) == IF is_some(o.fighter) THEN unwrap(o.fighter).power ELSE 0
defense_of(o) == IF is_some(o.fighter) THEN unwrap(o.fighter).defense ELSE 0

attack_damage_own_defense(attacker, target) == power_of(attacker) - defense_of(attacker)

\* The damage formula of Object::attack.
attack_damage(attacker, target) == power_of(attacker) - defense_of(target)

\* Object::attack: objects[a] attacks objects[t].
attack(w, a, t) ==
    LET self == At(w.objects, a)
        target == At(w.objects, t)
        damage == attack_damage(self, target)
        w1 == Log(w, Event("attack", self.uid, target.uid, damage))
    IN  IF damage > 0
        THEN take_damage(add(w1, Msg("{} attacks {} for {} hit points.",
                                     <<self.name, target.name, damage>>)), t, damage)
        ELSE add(w1, Msg("{} attacks {}, but it has no effect!",
                         <<self.name, target.name>>))

heal_fighter_unclamped(f, amount) == [f EXCEPT !.hp = f.hp + amount]

\* Object::heal on a Fighter value.
heal_fighter(f, amount) ==
    LET hp == f.hp + amount
    IN  [f EXCEPT !.hp = IF hp > f.max_hp THEN f.max_hp ELSE hp]

\* Object::heal
heal(o, amount) ==
    IF is_some(o.fighter)
    THEN [o EXCEPT !.fighter = Some(heal_fighter(unwrap(@), amount))]
    ELSE o

\* ------------------------------------------------ movement (lines 131-189)

is_blocked_tile_only(x, y, m, objs) == m[<<x, y>>].blocked

\* Object::is_blocked: the tile, then any blocking object on it.
is_blocked(x, y, m, objs) ==
    \/ m[<<x, y>>].blocked
    \/ \E i \in Ids(objs) : At(objs, i).blocks /\ pos(At(objs, i)) = <<x, y>>

\* Object::move_by
move_by(w, m, i, dx, dy) ==
    LET o == At(w.objects, i)
        w1 == Log(w, Event("move_by", o.uid, dx, dy))
    IN  IF ~is_blocked(o.x + dx, o.y + dy, m, w.objects)
        THEN Log([w1 EXCEPT !.objects = Upd(@, i, set_pos(o, o.x + dx, o.y + dy))],
                 Event("set_pos", o.uid, o.x + dx, o.y + dy))
        ELSE w1

\* mut_two (lines 1162-1173) returns its two references: the assert_ne
\* holds, split_at_mut(split_at_index) is within the slice, and
\* second_slice[0] exists.
mut_two_ok(first_index, second_index, items) ==
    LET split_at_index == IF first_index > second_index THEN first_index ELSE second_index
    IN  /\ first_index # second_index
        /\ split_at_index <= Len(items)
        /\ split_at_index < Len(items)

\* self.attack(target) on the two references of mut_two(first_index,
\* second_index, objects), where objects[a] attacks objects[t]; a failed
\* mut_two is a panic and no attack is made.
attack_two(w, first_index, second_index, a, t) ==
    IF mut_two_ok(first_index, second_index, w.objects)
    THEN attack(Log(w, Event("mut_two", first_index, second_index, Len(w.objects))), a, t)
    ELSE Log(w, Event("panic", first_index, second_index, Len(w.objects)))

attack_target_self(objs, x, y) == <<0>>

attack_target_none(objs, x, y) == <<>>

\* The first index whose object has a Fighter and stands on (x, y).
attack_target(objs, x, y) ==
    LET S == {i \in Ids(objs) : is_some(At(objs, i).fighter) /\ pos(At(objs, i)) = <<x, y>>}
    IN  IF S = {} THEN None ELSE Some(MinOf(S))

\* Object::player_move_or_attack
player_move_or_attack(w, m, dx, dy) ==
    LET x == At(w.objects, PLAYER).x + dx
        y == At(w.objects, PLAYER).y + dy
        target_id == attack_target(w.objects, x, y)
    IN  IF is_some(target_id)
        THEN attack_two(w, unwrap(target_id), PLAYER, PLAYER, unwrap(target_id))
        ELSE move_by(w, m, PLAYER, dx, dy)

\* Object::distance_to, squared.
distance2_to(self, other) ==
    (other.x - self.x) * (other.x - self.x) + (other.y - self.y) * (other.y - self.y)

\* (d as f32 / distance).round() as i32 with distance = sqrt(d2): the quotient
\* lies in [-1, 1] and rounds away from zero from 0.5 on, i.e. 4*d*d >= d2;
\* d = 0 gives 0 (also when the distance is 0).
round_unit(d, d2) ==
    IF d = 0 THEN 0
    ELSE IF 4 * d * d >= d2 THEN (IF d > 0 THEN 1 ELSE -1)
    ELSE 0

\* Object::move_towards
move_towards(w, m, i, target_x, target_y) ==
    LET dx == target_x - At(w.objects, i).x
        dy == target_y - At(w.objects, i).y
        d2 == dx * dx + dy * dy
    IN  move_by(w, m, i, round_unit(dx, d2), round_unit(dy, d2))

\* ------------------------------------------- field of view (lines 954-960)

is_in_fov_always(f, x, y) == TRUE

is_in_fov(f, x, y) == <<x, y>> \in f

\* a / n rounded to the nearest integer, n > 0.
div_round(a, n) == (2 * a + n) \div (2 * n)

\* Point k of the n-step ray from o to t.
ray_point(o, t, k, n) ==
    <<o[1] + div_round(k * (t[1] - o[1]), n), o[2] + div_round(k * (t[2] - o[2]), n)>>

\* Whether the ray cast from o reaches t: t is within the radius and no
\* sight-blocking tile lies strictly between o and t.  A wall that ends a ray
\* is lit (FOV_LIGHT_WALLS).
ray_reaches(m, o, t, radius) ==
    LET dx == t[1] - o[1]
        dy == t[2] - o[2]
        adx == IF dx < 0 THEN -dx ELSE dx
        ady == IF dy < 0 THEN -dy ELSE dy
        n == IF adx > ady THEN adx ELSE ady
    IN  /\ dx * dx + dy * dy <= radius * radius
        /\ \A k \in 1 .. (n - 1) : ~m[ray_point(o, t, k, n)].block_sight

\* tcod.fov.compute_fov(px, py, TORCH_RADIUS, FOV_LIGHT_WALLS, FOV_ALGO): the
\* library's ray casting, as the set of tiles it marks visible.
compute_fov(m, px, py, radius) ==
    {t \in DOMAIN m : ray_reaches(m, <<px, py>>, t, radius)}

\* ------------------------------------------------------ AI (lines 191-253)

player_attackable_any(player) == is_some(player.fighter)

\* The test that lets a monster next to the player attack.
player_attackable(player) ==
    IF is_some(player.fighter) THEN unwrap(player.fighter).hp > 0 ELSE FALSE

\* Object::ai_basic; the result is the world and the new AI state.
ai_basic(w, m, f, monster_id) ==
    LET monster == At(w.objects, monster_id)
        player == At(w.objects, PLAYER)
    IN  IF is_in_fov(f, monster.x, monster.y)
        THEN IF distance2_to(monster, player) >= 4
             THEN [w |-> move_towards(w, m, monster_id, player.x, player.y), ai |-> Ai_Basic]
             ELSE IF player_attackable(player)
                  THEN [w |-> attack_two(w, monster_id, PLAYER, monster_id, PLAYER),
                        ai |-> Ai_Basic]
                  ELSE [w |-> w, ai |-> Ai_Basic]
        ELSE [w |-> w, ai |-> Ai_Basic]

still_confused_positive(num_turns) == num_turns > 0

\* The test of ai_confused: the monster is still confused.
still_confused(num_turns) == num_turns >= 0

\* Object::ai_confused; rdx and rdy are the two gen_range(-1, 2) draws.
ai_confused(w, m, monster_id, previous_ai, num_turns, rdx, rdy) ==
    IF still_confused(num_turns)
    THEN [w |-> move_by(Log(w, Event("confused_step", At(w.objects, monster_id).uid, -1, num_turns)),
                        m, monster_id, rdx, rdy),
          ai |-> Ai_Confused(previous_ai, num_turns - 1)]
    ELSE [w |-> add(Log(w, Event("revert", At(w.objects, monster_id).uid, -1, num_turns)),
                    Msg("The {} is no longer confused!",
                        <<At(w.objects, monster_id).name>>)),
          ai |-> previous_ai]

ai_take_turn_not_put_back(w, m, f, monster_id, rdx, rdy) ==
    LET taken == At(w.objects, monster_id).ai
        w0 == [w EXCEPT !.objects = Upd(@, monster_id, [At(@, monster_id) EXCEPT !.ai = <<>>])]
        w1 == Log(w0, Event("ai_take_turn", At(w.objects, monster_id).uid, -1, monster_id))
    IN  IF taken = <<>> THEN w
        ELSE IF taken[1].kind = "Basic"
        THEN ai_basic(w1, m, f, monster_id).w
        ELSE ai_confused(w1, m, monster_id, taken[1].previous_ai,
                         taken[1].num_turns, rdx, rdy).w

\* Object::ai_take_turn: the AI is taken out, stepped, and put back.
ai_take_turn(w, m, f, monster_id, rdx, rdy) ==
    LET taken == At(w.objects, monster_id).ai
        w0 == [w EXCEPT !.objects = Upd(@, monster_id, [At(@, monster_id) EXCEPT !.ai = None])]
        w1 == Log(w0, Event("ai_take_turn", At(w.objects, monster_id).uid, -1, monster_id))
        r == IF unwrap(taken).kind = "Basic"
             THEN ai_basic(w1, m, f, monster_id)
             ELSE ai_confused(w1, m, monster_id, unwrap(taken).previous_ai,
                              unwrap(taken).num_turns, rdx, rdy)
    IN  IF is_some(taken)
        THEN [r.w EXCEPT !.objects = Upd(@, monster_id, [At(@, monster_id) EXCEPT !.ai = Some(r.ai)])]
        ELSE w

\* ---------------------------------------------------- items (lines 256-470)

inventory_full_off_by_one(inv) == Len(inv) > INVENTORY_CAPACITY

\* The capacity test of pick_item_up (line 257).
inventory_full(inv) == Len(inv) >= INVENTORY_CAPACITY

\* Object::pick_item_up
pick_item_up(w0, object_id) ==
    LET w == Log(w0, Event("pick_item_up", At(w0.objects, object_id).uid, -1, object_id))
    IN  IF inventory_full(w.inventory)
        THEN add(w, Msg("Your inventory is full. You cannot pick up {}.",
                        <<At(w.objects, object_id).name>>))
        ELSE LET item == At(w.objects, object_id)
                 w1 == [w EXCEPT !.objects = swap_remove(@, object_id)]
                 w2 == add(w1, Msg("You picked up a {}!", <<item.name>>))
             IN  [w2 EXCEPT !.inventory = Append(@, item)]

\* The filter of closest_monster's loop.
is_target(objs, f, i) ==
    /\ i # PLAYER
    /\ is_some(At(objs, i).fighter)
    /\ is_some(At(objs, i).ai)
    /\ is_in_fov(f, At(objs, i).x, At(objs, i).y)

\* closest_dist's start value, (max_range + 1) as f32, squared.
closest_start(max_range) == (max_range + 1) * (max_range + 1)

\* The loop of closest_monster from index i on, with the closest enemy and its
\* squared distance so far.
RECURSIVE closest_scan(_, _, _, _, _)
closest_scan(objs, f, i, closest_enemy, closest_dist2) ==
    IF i >= Len(objs) THEN closest_enemy
    ELSE LET dist2 == distance2_to(At(objs, PLAYER), At(objs, i))
         IN  IF is_target(objs, f, i) /\ dist2 < closest_dist2
             THEN closest_scan(objs, f, i + 1, Some(i), dist2)
             ELSE closest_scan(objs, f, i + 1, closest_enemy, closest_dist2)

\* Object::closest_monster
closest_monster(f, objs, max_range) ==
    closest_scan(objs, f, 0, None, closest_start(max_range))

\* An item effect's result: the world and UsedUp or Cancelled.
Used(w) == [w |-> w, result |-> "UsedUp"]
Cancelled(w) == [w |-> w, result |-> "Cancelled"]

\* cast_heal
cast_heal(w, f) ==
    LET player == At(w.objects, PLAYER)
    IN  IF is_some(player.fighter)
        THEN IF unwrap(player.fighter).hp = unwrap(player.fighter).max_hp
             THEN Cancelled(add(w, Msg("You are already at full health.", <<>>)))
             ELSE LET w1 == add(w, Msg("Your wounds start to feel better!", <<>>))
                  IN  Used(Log([w1 EXCEPT !.objects = Upd(@, PLAYER, heal(player, HEAL_AMOUNT))],
                               Event("heal", player.uid, -1, HEAL_AMOUNT)))
        ELSE Cancelled(w)

\* cast_lightning
cast_lightning(w, f) ==
    LET monster_id == closest_monster(f, w.objects, LIGHTNING_RANGE)
    IN  IF is_some(monster_id)
        THEN LET i == unwrap(monster_id)
                 w1 == add(w, Msg("A lightning bolt strikes the {} with a loud thunder! The damage is {} hit points.",
                                  <<At(w.objects, i).name>>))
             IN  Used(take_damage(Log(w1, Event("lightning", At(w.objects, i).uid, -1, i)),
                                  i, LIGHTNING_DAMAGE))
        ELSE Cancelled(add(w, Msg("No enemy is close enough to strike.", <<>>)))

cast_confuse_forgetful(w, f) ==
    LET monster_id == closest_monster(f, w.objects, CONFUSE_RANGE)
    IN  IF monster_id # <<>>
        THEN LET i == monster_id[1]
                 o == At(w.objects, i)
             IN  [w |-> add(Log([w EXCEPT !.objects = Upd(@, i,
                                    [o EXCEPT !.ai = <<[kind |-> "Confused",
                                                        previous_ai |-> [kind |-> "Basic"],
                                                        num_turns |-> CONFUSE_NUM_TURNS]>>])],
                                Event("confuse", o.uid, -1, i)),
                            Msg("The eyes of {} look vacant, as he starts to stumble around!",
                                <<o.name>>)),
                  result |-> "UsedUp"]
        ELSE [w |-> add(w, Msg("No enemy is close enough to strike.", <<>>)),
              result |-> "Cancelled"]

\* cast_confuse: the target's AI is wrapped in Confused (line 431 read as
\* Some(Ai::Confused { previous_ai, num_turns })).
cast_confuse(w, f) ==
    LET monster_id == closest_monster(f, w.objects, CONFUSE_RANGE)
    IN  IF is_some(monster_id)
        THEN LET i == unwrap(monster_id)
                 o == At(w.objects, i)
                 old_ai == IF is_some(o.ai) THEN unwrap(o.ai) ELSE Ai_Basic
                 w1 == [w EXCEPT !.objects = Upd(@, i,
                            [o EXCEPT !.ai = Some(Ai_Confused(old_ai, CONFUSE_NUM_TURNS))])]
             IN  Used(add(Log(w1, Event("confuse", o.uid, -1, i)),
                          Msg("The eyes of {} look vacant, as he starts to stumble around!",
                              <<o.name>>)))
        ELSE Cancelled(add(w, Msg("No enemy is close enough to strike.", <<>>)))

\* use_item's dispatch on the item kind.
on_use(item, w, f) ==
    CASE item = "Heal" -> cast_heal(w, f)
      [] item = "Lightning" -> cast_lightning(w, f)
      [] item = "Confuse" -> cast_confuse(w, f)

\* use_item
use_item(w, f, inventory_id) ==
    LET item == At(w.inventory, inventory_id).item
        r == on_use(unwrap(item), w, f)
    IN  IF is_some(item)
        THEN IF r.result = "UsedUp"
             THEN Log([r.w EXCEPT !.inventory = remove(@, inventory_id)],
                      Event("UsedUp", -1, -1, inventory_id))
             ELSE Log(add(r.w, Msg("Cancelled", <<>>)),
                      Event("Cancelled", -1, -1, inventory_id))
        ELSE w

\* ------------------------------------------- map building (lines 537-569)

Rect_new_wide(x, y, w, h) == [x1 |-> x, y1 |-> y, x2 |-> x + w + 1, y2 |-> y + h + 1]

\* Rect::new
Rect_new(x, y, w, h) == [x1 |-> x, y1 |-> y, x2 |-> x + w, y2 |-> y + h]

\* Rect::center
center(r) == <<(r.x1 + r.x2) \div 2, (r.y1 + r.y2) \div 2>>

create_room_with_border(room, m) ==
    [t \in DOMAIN m |->
        IF /\ room.x1 <= t[1] /\ t[1] <= room.x2
           /\ room.y1 <= t[2] /\ t[2] <= room.y2
        THEN [blocked |-> FALSE, block_sight |-> FALSE] ELSE m[t]]

\* create_room: the tiles strictly inside the rectangle become passable.
create_room(room, m) ==
    [t \in DOMAIN m |->
        IF /\ room.x1 + 1 <= t[1] /\ t[1] < room.x2
           /\ room.y1 + 1 <= t[2] /\ t[2] < room.y2
        THEN Tile_empty ELSE m[t]]

\* make_map's first line: every tile a wall.
wall_map == [t \in Tiles |-> Tile_wall]

\* The same on a grid of the given size.
walls(width, height) ==
    [t \in (0 .. (width - 1)) \X (0 .. (height - 1)) |-> Tile_wall]

intersects_with_strict(self, other) ==
    /\ self.x1 < other.x2
    /\ self.x2 > other.x1
    /\ self.y1 < other.y2
    /\ self.y2 > other.y1

\* Rect::intersects_with
intersects_with(self, other) ==
    /\ self.x1 <= other.x2
    /\ self.x2 >= other.x1
    /\ self.y1 <= other.y2
    /\ self.y2 >= other.y1

cmp_min(a, b) == IF a < b THEN a ELSE b
cmp_max(a, b) == IF a > b THEN a ELSE b

create_h_tunnel_none(x1, x2, y, m) == m

create_h_tunnel_forward(x1, x2, y, m) ==
    [t \in DOMAIN m |-> IF t[2] = y /\ t[1] \in x1 .. x2 THEN Tile_empty ELSE m[t]]

\* create_h_tunnel: the tiles (x, y) with x in min(x1, x2) .. max(x1, x2).
create_h_tunnel(x1, x2, y, m) ==
    [t \in DOMAIN m |->
        IF t[2] = y /\ t[1] \in cmp_min(x1, x2) .. cmp_max(x1, x2)
        THEN Tile_empty ELSE m[t]]

\* create_v_tunnel: the tiles (x, y) with y in min(y1, y2) .. max(y1, y2).
create_v_tunnel(y1, y2, x, m) ==
    [t \in DOMAIN m |->
        IF t[1] = x /\ t[2] \in cmp_min(y1, y2) .. cmp_max(y1, y2)
        THEN Tile_empty ELSE m[t]]

\* ------------------------------------ entities as created (lines 596-675, 1086-1094)

new_player(hp) ==
    [Object_new(0, 0, 0, "@", "player", "WHITE", TRUE) EXCEPT
        !.alive = TRUE, !.fighter = Some(Fighter(30, hp, 2, 5, "Player"))]

new_orc(uid, x, y, hp) ==
    [Object_new(uid, x, y, "o", "orc", "DESATURATED_GREEN", TRUE) EXCEPT
        !.fighter = Some(Fighter(10, hp, 0, 3, "Monster")),
        !.ai = Some(Ai_Basic), !.alive = TRUE]

new_troll(uid, x, y, hp) ==
    [Object_new(uid, x, y, "T", "troll", "DARKER_GREEN", TRUE) EXCEPT
        !.fighter = Some(Fighter(16, hp, 1, 4, "Monster")),
        !.ai = Some(Ai_Basic), !.alive = TRUE]

new_item(uid, x, y, kind) ==
    [Object_new(uid, x, y,
                IF kind = "Heal" THEN "!" ELSE "#",
                CASE kind = "Heal" -> "healing potion"
                  [] kind = "Lightning" -> "scroll of lightning bolt"
                  [] kind = "Confuse" -> "scroll of confusion",
                IF kind = "Heal" THEN "VIOLET" ELSE "LIGHT_YELLOW",
                FALSE) EXCEPT !.item = Some(kind)]

\* ------------------------------------------- place_objects (lines 585-678)
\* A draw is [x, y, kind]: the spot and the outcome of the dice.  New objects
\* get the next unused uid.

\* One iteration of the monster loop.
place_monster(objs, m, d) ==
    IF ~is_blocked(d.x, d.y, m, objs)
    THEN Append(objs, IF d.kind = "orc" THEN new_orc(Len(objs), d.x, d.y, 10)
                      ELSE new_troll(Len(objs), d.x, d.y, 16))
    ELSE objs

\* One iteration of the item loop.
place_item(objs, m, d) ==
    IF ~is_blocked(d.x, d.y, m, objs)
    THEN Append(objs, new_item(Len(objs), d.x, d.y, d.kind))
    ELSE objs

RECURSIVE place_monsters(_, _, _)
place_monsters(objs, m, draws) ==
    IF draws = <<>> THEN objs
    ELSE place_monsters(place_monster(objs, m, Head(draws)), m, Tail(draws))

RECURSIVE place_items(_, _, _)
place_items(objs, m, draws) ==
    IF draws = <<>> THEN objs
    ELSE place_items(place_item(objs, m, Head(draws)), m, Tail(draws))

\* place_objects with its draws: num_monsters is Len(monsters), num_items is
\* Len(items).
place_objects(room, m, objs, monsters, items) ==
    place_items(place_monsters(objs, m, monsters), m, items)

\* gen_range(room.x1 + 1, room.x2) x gen_range(room.y1 + 1, room.y2) x dice.
Spots(room, kinds) ==
    [x : (room.x1 + 1) .. (room.x2 - 1), y : (room.y1 + 1) .. (room.y2 - 1),
     kind : kinds]

\* The sequences of at most n draws from D.
DrawSeqs(D, n) == UNION {[1 .. k -> D] : k \in 0 .. n}

\* ----------------------------------------------------------- initial states
\* One room filling the grid; the player stands at its center (make_map,
\* lines 706-716).  Each session below is a state of a running game: the
\* entity collection in the order make_map and pick-ups leave it, the hp that
\* earlier fights left, and the inventory.

first_room == Rect_new(0, 0, MAP_WIDTH - 1, MAP_HEIGHT - 1)

start_map == create_room(first_room, wall_map)

player_at_start(hp) ==
    set_pos(new_player(hp), center(first_room)[1], center(first_room)[2])

\* A new game: one orc, and a healing potion under the player.
session_new ==
    [objects |-> <<player_at_start(30), new_orc(1, 1, 1, 10),
                   new_item(2, center(first_room)[1], center(first_room)[2], "Heal")>>,
     inventory |-> <<>>]

\* A badly wounded player, a wounded orc, and a scroll of confusion under the
\* player.
session_confuse ==
    [objects |-> <<player_at_start(1), new_orc(1, 1, 1, 5),
                   new_item(2, center(first_room)[1], center(first_room)[2], "Confuse")>>,
     inventory |-> <<>>]

\* An item created before two monsters (an earlier room's item), all wounded.
session_two_monsters ==
    [objects |-> <<player_at_start(4),
                   new_item(1, center(first_room)[1], center(first_room)[2], "Lightning"),
                   new_orc(2, 1, 1, 5), new_troll(3, 3, 2, 4)>>,
     inventory |-> <<>>]

\* Late in a session: CarriedItems scrolls carried, two more on the floor.
session_loaded ==
    [objects |-> <<player_at_start(30),
                   new_item(1, center(first_room)[1], center(first_room)[2], "Lightning"),
                   new_item(2, center(first_room)[1], center(first_room)[2], "Lightning")>>,
     inventory |-> [k \in 1 .. CarriedItems |-> new_item(100 + k, 0, 0, "Lightning")]]

\* Three scrolls carried next to a wounded orc, the player badly wounded.
session_scrolls ==
    [objects |-> <<player_at_start(1), new_orc(1, 1, 1, 5)>>,
     inventory |-> <<new_item(10, 0, 0, "Lightning"), new_item(11, 0, 0, "Confuse"),
                     new_item(12, 0, 0, "Lightning")>>]

Sessions ==
    {session_new, session_confuse, session_two_monsters, session_loaded,
     session_scrolls}

Uids(s) == {s.objects[k].uid : k \in DOMAIN s.objects}
              \cup {s.inventory[k].uid : k \in DOMAIN s.inventory}

Init ==
    \E s \in Sessions :
        /\ map = start_map
        /\ objects = s.objects
        /\ inventory = s.inventory
        /\ messages = <<Msg("Welcome stranger! Prepare to perish in the Tombs of the Ancient Kings!", <<>>)>>
        /\ fov = {}
        /\ fov_origin = <<-1, -1>>
        /\ previous_player_position = <<-1, -1>>
        /\ player_action = "DidNotTakeTurn"
        /\ pc = "render"
        /\ id = 0
        /\ ev = NoEv
        /\ deaths = [u \in Uids(s) |-> 0]
        /\ stepped = <<>>
        /\ order = {}
        /\ conf = [u \in Uids(s) |-> None]
        /\ rooms = <<first_room>>
        /\ tunnels = <<>>

\* ------------------------------------------------- history bookkeeping

World == [objects |-> objects, inventory |-> inventory, messages |-> <<>>, ev |-> NoEv]

Count(events, e, u) == Cardinality({k \in DOMAIN events : events[k].e = e /\ events[k].a = u})

\* The confusion record of u after a step with the events `events`, in which
\* u's AI before the step was `old`.
conf_after(c, events, u, old) ==
    IF Count(events, "on_death", u) > 0 THEN None
    ELSE IF Count(events, "confuse", u) > 0
         THEN Some([ai |-> IF is_some(old) THEN unwrap(old) ELSE Ai_Basic,
                    n |-> CONFUSE_NUM_TURNS, steps |-> 0])
    ELSE IF Count(events, "revert", u) > 0 THEN None
    ELSE IF Count(events, "confused_step", u) > 0 /\ is_some(c)
         THEN Some([unwrap(c) EXCEPT !.steps = @ + 1])
    ELSE c

AiOf(objs, u) ==
    LET S == {k \in DOMAIN objs : objs[k].uid = u}
    IN  IF S = {} THEN None ELSE objs[CHOOSE k \in S : TRUE].ai

\* The step's world becomes the state.
Commit(w) ==
    /\ objects' = w.objects
    /\ inventory' = w.inventory
    /\ messages' = w.messages
    /\ ev' = w.ev
    /\ deaths' = [u \in DOMAIN deaths |-> deaths[u] + Count(w.ev, "on_death", u)]
    /\ conf' = [u \in DOMAIN conf |-> conf_after(conf[u], w.ev, u, AiOf(objects, u))]

\* The pairs <<a, b>> with a before b in the sequence s.
Pairs(s) == {<<s[p[1]], s[p[2]]>> : p \in {q \in (DOMAIN s) \X (DOMAIN s) : q[1] < q[2]}}

\* ------------------------------------------------ main's loop (lines 1127-1159)

\* Lines 1139-1144: render_all recomputes the field of view when the player
\* has moved since the last frame; the position is then remembered.
Render ==
    /\ pc = "render"
    /\ LET player == At(objects, PLAYER)
           fov_recompute == previous_player_position # pos(player)
       IN  /\ fov' = IF fov_recompute
                     THEN compute_fov(map, player.x, player.y, TORCH_RADIUS)
                     ELSE fov
           /\ fov_origin' = IF fov_recompute THEN pos(player) ELSE fov_origin
           /\ previous_player_position' = pos(player)
    /\ pc' = "keys"
    /\ messages' = <<>>
    /\ ev' = NoEv
    /\ UNCHANGED <<map, objects, inventory, player_action, id, deaths, stepped,
                   order, conf, rooms, tunnels>>

\* Line 1127: the window was closed.
WindowClosed ==
    /\ pc = "render"
    /\ pc' = "done"
    /\ messages' = <<>>
    /\ ev' = NoEv
    /\ UNCHANGED <<map, objects, inventory, fov, fov_origin,
                   previous_player_position, player_action, id, deaths,
                   stepped, order, conf, rooms, tunnels>>

monsters_act_if_alive(player, action) == player.alive

\* Line 1151: whether the monsters take their turn.
monsters_act(player, action) == player.alive /\ action # "DidNotTakeTurn"

\* Lines 1145-1152: what follows handle_keys returning `action`.
AfterKeys(action) ==
    /\ player_action' = action
    /\ pc' = IF action = "Exit" THEN "done"
             ELSE IF monsters_act(At(objects', PLAYER), action) THEN "monsters"
             ELSE "render"
    /\ id' = 0
    /\ stepped' = <<>>
    /\ UNCHANGED <<map, fov, fov_origin, previous_player_position, order,
                   rooms, tunnels>>

player_alive_unchecked == TRUE

player_alive == At(objects, PLAYER).alive

Directions == {d \in (-1 .. 1) \X (-1 .. 1) : d # <<0, 0>>}

\* handle_keys, a movement key (lines 813-860).
KeyMove ==
    /\ pc = "keys"
    /\ player_alive
    /\ \E d \in Directions : Commit(player_move_or_attack(World, map, d[1], d[2]))
    /\ AfterKeys("TookTurn")

item_here_last(objs) ==
    LET S == {i \in Ids(objs) : pos(At(objs, i)) = pos(At(objs, PLAYER)) /\ is_some(At(objs, i).item)}
    IN  IF S = {} THEN <<>> ELSE <<CHOOSE m \in S : \A n \in S : m >= n>>

item_here_any_object(objs) ==
    LET S == {i \in Ids(objs) : pos(At(objs, i)) = pos(At(objs, PLAYER))}
    IN  IF S = {} THEN None ELSE Some(MinOf(S))

\* The first index of an item on the player's tile (lines 865-867).
item_here(objs) ==
    LET S == {i \in Ids(objs) : pos(At(objs, i)) = pos(At(objs, PLAYER)) /\ is_some(At(objs, i).item)}
    IN  IF S = {} THEN None ELSE Some(MinOf(S))

\* handle_keys, "g" (lines 863-872).
KeyPickUp ==
    /\ pc = "keys"
    /\ player_alive
    /\ LET item_id == item_here(objects)
       IN  Commit(IF is_some(item_id) THEN pick_item_up(World, unwrap(item_id)) ELSE World)
    /\ AfterKeys("DidNotTakeTurn")

\* inventory_menu's results: an index of the inventory, or None.
menu_choices(inv) == {None} \cup {Some(i) : i \in Ids(inv)}

\* handle_keys, "i" (lines 875-886).
KeyInventory ==
    /\ pc = "keys"
    /\ player_alive
    /\ \E inventory_index \in menu_choices(inventory) :
          Commit(IF is_some(inventory_index)
                 THEN use_item(World, fov, unwrap(inventory_index))
                 ELSE World)
    /\ AfterKeys("DidNotTakeTurn")

\* handle_keys, Alt+Enter, any other key, any key but Escape while the player
\* is dead, or no key at all (lines 889-900).
KeyOther ==
    /\ pc = "keys"
    /\ Commit(World)
    /\ AfterKeys("DidNotTakeTurn")

\* handle_keys, Escape (line 899), and the break of line 1147.
KeyExit ==
    /\ pc = "keys"
    /\ Commit(World)
    /\ AfterKeys("Exit")

\* The draws of ai_confused's two gen_range(-1, 2).
Draws(ai) ==
    IF is_some(ai) /\ unwrap(ai).kind = "Confused"
    THEN (-1 .. 1) \X (-1 .. 1) ELSE {<<0, 0>>}

loop_continues_short(i, objs) == i + 1 < Len(objs)

\* The range of `for id in 0..objects.len()` (line 1152).
loop_continues(i, objs) == i < Len(objs)

\* One iteration of the monster loop (lines 1152-1157).
MonsterStep ==
    /\ pc = "monsters"
    /\ loop_continues(id, objects)
    /\ LET o == At(objects, id)
       IN  IF is_some(o.ai)
           THEN /\ \E r \in Draws(o.ai) :
                      Commit(ai_take_turn(World, map, fov, id, r[1], r[2]))
                /\ stepped' = Append(stepped, o.uid)
           ELSE /\ Commit(World)
                /\ stepped' = stepped
    /\ id' = id + 1
    /\ pc' = IF loop_continues(id + 1, objects) THEN "monsters" ELSE "render"
    /\ order' = IF pc' = "monsters" THEN order ELSE order \cup Pairs(stepped')
    /\ UNCHANGED <<map, fov, fov_origin, previous_player_position, player_action,
                   rooms, tunnels>>

Next ==
    \/ Render
    \/ WindowClosed
    \/ KeyMove
    \/ KeyPickUp
    \/ KeyInventory
    \/ KeyOther
    \/ KeyExit
    \/ MonsterStep

Spec == Init /\ [][Next]_vars

\* --------------------------------------------- Object::attack on its own
\* attack applied to every pair of small attacker and defender values, each
\* with or without a Fighter.

MaxStat == 3

FighterInputs ==
    {Fighter(MaxStat, hp, defense, power, cb) :
        hp \in 1 .. MaxStat, defense \in 0 .. (MaxStat - 1), power \in 0 .. MaxStat,
        cb \in {"Player", "Monster"}}

OptionInputs == {None} \cup {Some(f) : f \in FighterInputs}

AttackInit ==
    \E fa \in OptionInputs, fb \in OptionInputs :
        /\ map = start_map
        /\ objects = <<[Object_new(0, 1, 1, "a", "first", "WHITE", TRUE) EXCEPT
                            !.fighter = fa, !.alive = TRUE],
                       [Object_new(1, 2, 1, "b", "second", "WHITE", TRUE) EXCEPT
                            !.fighter = fb, !.alive = TRUE]>>
        /\ inventory = <<>>
        /\ messages = <<>>
        /\ fov = {}
        /\ fov_origin = <<-1, -1>>
        /\ previous_player_position = <<-1, -1>>
        /\ player_action = "DidNotTakeTurn"
        /\ pc = "attack"
        /\ id = 0
        /\ ev = NoEv
        /\ deaths = [u \in {0, 1} |-> 0]
        /\ stepped = <<>>
        /\ order = {}
        /\ conf = [u \in {0, 1} |-> None]
        /\ rooms = <<first_room>>
        /\ tunnels = <<>>

\* The first object attacks the second, or the second the first.
AttackStep ==
    /\ pc = "attack"
    /\ \E p \in {<<0, 1>>, <<1, 0>>} : Commit(attack(World, p[1], p[2]))
    /\ pc' = "attacked"
    /\ UNCHANGED <<map, fov, fov_origin, previous_player_position, player_action,
                   id, stepped, order, rooms, tunnels>>

SpecAttack == AttackInit /\ [][AttackStep]_vars

\* ------------------------------------------------ make_map (lines 680-741)

\* A tunnel segment as make_map digs it: kind "h" from x = a to x = b on the
\* row c, kind "v" from y = a to y = b on the column c.
Segment(kind, a, b, c) == [kind |-> kind, a |-> a, b |-> b, c |-> c]

\* The `if !failed` branch of one iteration of make_map's loop.
accept_room(m, objs, rs, new_room, coin, monsters, items) ==
    LET m1 == create_room(new_room, m)
        objs1 == place_objects(new_room, m1, objs, monsters, items)
        new_x == center(new_room)[1]
        new_y == center(new_room)[2]
        prev_x == center(rs[Len(rs)])[1]
        prev_y == center(rs[Len(rs)])[2]
    IN  IF rs = <<>>
        THEN [map |-> m1,
              objects |-> Upd(objs1, PLAYER, set_pos(At(objs1, PLAYER), new_x, new_y)),
              dug |-> <<>>]
        ELSE IF coin
        THEN [map |-> create_v_tunnel(prev_y, new_y, new_x,
                          create_h_tunnel(prev_x, new_x, prev_y, m1)),
              objects |-> objs1,
              dug |-> <<Segment("h", prev_x, new_x, prev_y),
                        Segment("v", prev_y, new_y, new_x)>>]
        ELSE [map |-> create_h_tunnel(prev_x, new_x, new_y,
                          create_v_tunnel(prev_y, new_y, prev_x, m1)),
              objects |-> objs1,
              dug |-> <<Segment("v", prev_y, new_y, prev_x),
                        Segment("h", prev_x, new_x, new_y)>>]

\* main before make_map's loop: the player alone at (0, 0), every tile a wall.
MakeMapInit ==
    /\ map = walls(GEN_MAP_WIDTH, GEN_MAP_HEIGHT)
    /\ objects = <<new_player(30)>>
    /\ inventory = <<>>
    /\ messages = <<>>
    /\ fov = {}
    /\ fov_origin = <<-1, -1>>
    /\ previous_player_position = <<-1, -1>>
    /\ player_action = "DidNotTakeTurn"
    /\ pc = "make_map"
    /\ id = 0
    /\ ev = NoEv
    /\ deaths = [u \in {0} |-> 0]
    /\ stepped = <<>>
    /\ order = {}
    /\ conf = [u \in {0} |-> None]
    /\ rooms = <<>>
    /\ tunnels = <<>>

\* One iteration of `for _ in 0..MAX_ROOMS` with its random draws; ev records
\* the candidate rectangle.
MakeRoom ==
    /\ pc = "make_map"
    /\ id < MAX_ROOMS
    /\ \E w \in ROOM_MIN_SIZE .. ROOM_MAX_SIZE, h \in ROOM_MIN_SIZE .. ROOM_MAX_SIZE :
         \E x \in 0 .. (GEN_MAP_WIDTH - w - 1), y \in 0 .. (GEN_MAP_HEIGHT - h - 1) :
            LET new_room == Rect_new(x, y, w, h)
                failed == \E k \in DOMAIN rooms : intersects_with(new_room, rooms[k])
            IN  /\ ev' = <<Event("new_room", new_room, failed, id)>>
                /\ IF failed
                   THEN UNCHANGED <<map, objects, rooms, tunnels>>
                   ELSE \E coin \in BOOLEAN,
                           monsters \in DrawSeqs(Spots(new_room, {"orc", "troll"}),
                                                 MAX_ROOM_MONSTERS),
                           items \in DrawSeqs(Spots(new_room, {"Heal", "Lightning", "Confuse"}),
                                              MAX_ROOM_ITEMS) :
                            LET r == accept_room(map, objects, rooms, new_room, coin,
                                                 monsters, items)
                            IN  /\ map' = r.map
                                /\ objects' = r.objects
                                /\ rooms' = Append(rooms, new_room)
                                /\ tunnels' = tunnels \o r.dug
    /\ id' = id + 1
    /\ pc' = IF id + 1 < MAX_ROOMS THEN "make_map" ELSE "made"
    /\ UNCHANGED <<inventory, messages, fov, fov_origin, previous_player_position,
                   player_action, deaths, stepped, order, conf>>

SpecMap == MakeMapInit /\ [][MakeRoom]_vars

\* ------------------------- create_h_tunnel and create_v_tunnel on their own
\* One tunnel is dug between any two coordinates, on the all-wall map or on a
\* map that already holds a room.

TunnelInit ==
    /\ map \in {walls(GEN_MAP_WIDTH, GEN_MAP_HEIGHT),
                 create_room(Rect_new(0, 0, ROOM_MAX_SIZE, ROOM_MAX_SIZE),
                             walls(GEN_MAP_WIDTH, GEN_MAP_HEIGHT))}
    /\ objects = <<new_player(30)>>
    /\ inventory = <<>>
    /\ messages = <<>>
    /\ fov = {}
    /\ fov_origin = <<-1, -1>>
    /\ previous_player_position = <<-1, -1>>
    /\ player_action = "DidNotTakeTurn"
    /\ pc = "tunnel"
    /\ id = 0
    /\ ev = NoEv
    /\ deaths = [u \in {0} |-> 0]
    /\ stepped = <<>>
    /\ order = {}
    /\ conf = [u \in {0} |-> None]
    /\ rooms = <<>>
    /\ tunnels = <<>>

\* create_h_tunnel(x1, x2, y, map) or create_v_tunnel(y1, y2, x, map).
TunnelStep ==
    /\ pc = "tunnel"
    /\ \/ \E x1 \in 0 .. (GEN_MAP_WIDTH - 1), x2 \in 0 .. (GEN_MAP_WIDTH - 1),
             y \in 0 .. (GEN_MAP_HEIGHT - 1) :
              /\ map' = create_h_tunnel(x1, x2, y, map)
              /\ tunnels' = <<Segment("h", x1, x2, y)>>
       \/ \E y1 \in 0 .. (GEN_MAP_HEIGHT - 1), y2 \in 0 .. (GEN_MAP_HEIGHT - 1),
             x \in 0 .. (GEN_MAP_WIDTH - 1) :
              /\ map' = create_v_tunnel(y1, y2, x, map)
              /\ tunnels' = <<Segment("v", y1, y2, x)>>
    /\ pc' = "dug"
    /\ UNCHANGED <<objects, inventory, messages, fov, fov_origin,
                   previous_player_position, player_action, id, ev, deaths,
                   stepped, order, conf, rooms>>

SpecTunnel == TunnelInit /\ [][TunnelStep]_vars

\* ------------------------------- cast_lightning and cast_confuse on their own
\* The player and one orc stand anywhere in one room, the field of view is
\* the one render_all computed for the player's tile, and a scroll of each
\* kind is carried.

cast_room == Rect_new(0, 0, CastRoomWidth, CastRoomHeight)

CastInit ==
    /\ map = create_room(cast_room, walls(CastRoomWidth + 1, CastRoomHeight + 1))
    /\ \E p \in DOMAIN map, q \in DOMAIN map :
          /\ ~map[p].blocked
          /\ ~map[q].blocked
          /\ p # q
          /\ objects = <<set_pos(new_player(30), p[1], p[2]), new_orc(1, q[1], q[2], 10)>>
          /\ fov = compute_fov(map, p[1], p[2], TORCH_RADIUS)
          /\ fov_origin = p
          /\ previous_player_position = p
    /\ inventory = <<new_item(10, 0, 0, "Lightning"), new_item(11, 0, 0, "Confuse")>>
    /\ messages = <<>>
    /\ player_action = "DidNotTakeTurn"
    /\ pc = "cast"
    /\ id = 0
    /\ ev = NoEv
    /\ deaths = [u \in {0, 1} |-> 0]
    /\ stepped = <<>>
    /\ order = {}
    /\ conf = [u \in {0, 1} |-> None]
    /\ rooms = <<cast_room>>
    /\ tunnels = <<>>

\* use_item on one of the carried scrolls.
CastStep ==
    /\ pc = "cast"
    /\ inventory # <<>>
    /\ \E inventory_id \in Ids(inventory) : Commit(use_item(World, fov, inventory_id))
    /\ UNCHANGED <<map, fov, fov_origin, previous_player_position, player_action,
                   pc, id, stepped, order, rooms, tunnels>>

SpecCast == CastInit /\ [][CastStep]_vars

\* ------------------------------------------------- ai_basic on its own
\* Two rooms joined by a tunnel, as make_map builds them.  The player, alive
\* or dead, and one orc stand on any two passable tiles; the field of view is
\* the one computed for the player's tile or, the player having moved since
\* the last render_all, for a tile next to it.

ai_room_a == Rect_new(0, 0, 3, 3)
ai_room_b == Rect_new(4, 0, 3, 3)

ai_map ==
    create_h_tunnel(center(ai_room_a)[1], center(ai_room_b)[1], center(ai_room_a)[2],
                    create_room(ai_room_b, create_room(ai_room_a, walls(8, 4))))

\* The player after player_death, hp taken to 0.
dead_player ==
    [new_player(0) EXCEPT !.alive = FALSE, !.char = "%", !.color = "DARKER_RED"]

AiInit ==
    /\ map = ai_map
    /\ \E p \in DOMAIN map, q \in DOMAIN map, o \in DOMAIN map,
          player \in {new_player(30), dead_player} :
          /\ ~map[p].blocked
          /\ ~map[q].blocked
          /\ ~map[o].blocked
          /\ p # q
          /\ o[1] - p[1] \in -1 .. 1
          /\ o[2] - p[2] \in -1 .. 1
          /\ objects = <<set_pos(player, p[1], p[2]), new_orc(1, q[1], q[2], 10)>>
          /\ fov = compute_fov(map, o[1], o[2], TORCH_RADIUS)
          /\ fov_origin = o
          /\ previous_player_position = o
    /\ inventory = <<>>
    /\ messages = <<>>
    /\ player_action = "TookTurn"
    /\ pc = "ai"
    /\ id = 1
    /\ ev = NoEv
    /\ deaths = [u \in {0, 1} |-> 0]
    /\ stepped = <<>>
    /\ order = {}
    /\ conf = [u \in {0, 1} |-> None]
    /\ rooms = <<ai_room_a, ai_room_b>>
    /\ tunnels = <<>>

\* ai_take_turn on the orc.
AiStep ==
    /\ pc = "ai"
    /\ Commit(ai_take_turn(World, map, fov, id, 0, 0))
    /\ pc' = "stepped"
    /\ UNCHANGED <<map, fov, fov_origin, previous_player_position, player_action,
                   id, stepped, order, rooms, tunnels>>

SpecAi == AiInit /\ [][AiStep]_vars

\* ==================================================================
\* Properties
\* ===================================================================

HasUid(objs, u) == \E k \in DOMAIN objs : objs[k].uid = u
ObjOf(objs, u) == objs[CHOOSE k \in DOMAIN objs : objs[k].uid = u]
Happened(events, e) == \E k \in DOMAIN events : events[k].e = e
WithoutAi(objs) == [k \in DOMAIN objs |-> [objs[k] EXCEPT !.ai = None]]
Logged(msgs, fmt) == \E k \in DOMAIN msgs : msgs[k].fmt = fmt

\* C1: the death transition of an entity runs at most once in a session: no
\* attack, lightning strike or AI step runs on_death again for an entity whose
\* on_death has run.
C1_DeathAtMostOnce == \A u \in DOMAIN deaths : deaths[u] <= 1

\* The player died in an earlier step and a monster has taken an AI step since.
C1_Witness ==
    /\ deaths[0] = 1
    /\ Happened(ev, "ai_take_turn")
    /\ ~Happened(ev, "on_death")

\* The destination of a move_by of the entity u by (dx, dy) is free: the tile
\* is not blocked and no blocking entity stands on it.
DestinationFree(u, dx, dy) ==
    LET o == ObjOf(objects, u)
        dest == <<o.x + dx, o.y + dy>>
    IN  /\ ~map[dest].blocked
        /\ ~\E k \in DOMAIN objects : objects[k].blocks /\ pos(objects[k]) = dest

\* The entity collection after u moved by (dx, dy).
Moved(u, dx, dy) ==
    [k \in DOMAIN objects |->
        IF objects[k].uid = u
        THEN [objects[k] EXCEPT !.x = @ + dx, !.y = @ + dy]
        ELSE objects[k]]

\* C2: move_by puts the entity on (x + dx, y + dy) only if that tile is not
\* blocked and no blocking entity is located on it; otherwise the position and
\* everything else stay as they were.
C2_MoveBy ==
    [][\A k \in DOMAIN ev' :
          ev'[k].e = "move_by" =>
              /\ WithoutAi(objects') =
                     WithoutAi(IF DestinationFree(ev'[k].a, ev'[k].b, ev'[k].n)
                               THEN Moved(ev'[k].a, ev'[k].b, ev'[k].n)
                               ELSE objects)
              /\ inventory' = inventory
              /\ map' = map]_vars

\* A move_by towards a tile held by another blocking entity was refused.
C2_Witness ==
    \E k \in DOMAIN ev :
        /\ ev[k].e = "move_by"
        /\ ~Happened(ev, "set_pos")
        /\ LET o == ObjOf(objects, ev[k].a)
           IN  \E j \in DOMAIN objects :
                   /\ objects[j].uid # o.uid
                   /\ objects[j].blocks
                   /\ pos(objects[j]) = <<o.x + ev[k].b, o.y + ev[k].n>>

\* power - defense as the claim states it, a missing Fighter counting as 0.
ClaimedDamage(attacker, defender) ==
    (IF attacker.fighter = <<>> THEN 0 ELSE attacker.fighter[1].power)
        - (IF defender.fighter = <<>> THEN 0 ELSE defender.fighter[1].defense)

AttackAsClaimed(a, t) ==
    LET attacker == ObjOf(objects, a)
        defender == ObjOf(objects, t)
        d == ClaimedDamage(attacker, defender)
        after == ObjOf(objects', t)
    IN  /\ ObjOf(objects', a) = attacker
        /\ d <= 0 => after = defender /\ deaths'[t] = deaths[t]
        /\ d > 0 /\ defender.fighter = <<>> => after = defender /\ deaths'[t] = deaths[t]
        /\ d > 0 /\ defender.fighter # <<>> =>
              LET hp == defender.fighter[1].hp - d
              IN  /\ \E k \in DOMAIN ev' :
                        ev'[k].e = "take_damage" /\ ev'[k].a = t /\ ev'[k].n = hp
                  /\ after.fighter # <<>> => after.fighter[1].hp = hp
                  /\ deaths'[t] = deaths[t] + (IF hp <= 0 THEN 1 ELSE 0)
                  /\ hp > 0 => after = [defender EXCEPT !.fighter[1].hp = hp]

\* C3: attack computes d = attacker.power - defender.defense (a missing Fighter
\* counts as 0); with d > 0 the defender's hp drops by exactly d and death is
\* triggered iff the resulting hp <= 0; with d <= 0 the defender is unchanged;
\* the attacker is unchanged in both cases.
C3_Attack ==
    [][\A k \in DOMAIN ev' :
          ev'[k].e = "attack" => AttackAsClaimed(ev'[k].a, ev'[k].b)]_vars

\* An attack with d > 0 took the defender's hp below zero and ran its death
\* transition.
C3_Witness ==
    /\ pc = "attacked"
    /\ \E k \in DOMAIN ev :
          /\ ev[k].e = "attack"
          /\ ev[k].n > 0
          /\ ObjOf(objects, ev[k].b).fighter # <<>>
          /\ ObjOf(objects, ev[k].b).fighter[1].hp < 0
          /\ deaths[ev[k].b] = 1

\* C4: the inventory never holds more than 26 entries, and a pick-up attempted
\* with 26 entries leaves the entity collection and the inventory unchanged
\* and appends a rejection message to the log.
C4_InventoryCapacity ==
    /\ [](Len(inventory) <= 26)
    /\ [][Happened(ev', "pick_item_up") /\ Len(inventory) = 26 =>
              /\ objects' = objects
              /\ inventory' = inventory
              /\ Logged(messages', "Your inventory is full. You cannot pick up {}.")]_vars

\* A pick-up was rejected with 26 entries carried; the item is still on the
\* player's tile.
C4_Witness ==
    /\ Len(inventory) = 26
    /\ Logged(messages, "Your inventory is full. You cannot pick up {}.")
    /\ \E k \in DOMAIN ev :
          /\ ev[k].e = "pick_item_up"
          /\ HasUid(objects, ev[k].a)
          /\ pos(ObjOf(objects, ev[k].a)) = pos(objects[1])

\* The AI state that the confusion recorded for u has now: Confused around the
\* state captured at confusion time, the counter lowered once per confused step.
ConfusedAsRecorded(u) ==
    LET c == conf[u][1]
    IN  /\ HasUid(objects, u)
        /\ c.steps \in 0 .. (c.n + 1)
        /\ ObjOf(objects, u).ai =
              <<[kind |-> "Confused", previous_ai |-> c.ai, num_turns |-> c.n - c.steps]>>

\* C5: a monster confused with Confused{A, n} and not confused again takes
\* exactly n + 1 confused (random-move) steps, the counter going n, ..., 0; the
\* AI step after those reverts it, and its AI state is then exactly A.
C5_Confusion ==
    /\ [](\A u \in DOMAIN conf : conf[u] # <<>> => ConfusedAsRecorded(u))
    /\ [][\A k \in DOMAIN ev' :
            /\ ev'[k].e = "confused_step" =>
                  \E j \in DOMAIN ev' : ev'[j].e = "move_by" /\ ev'[j].a = ev'[k].a
            /\ ev'[k].e = "revert" /\ conf[ev'[k].a] # <<>> =>
                  /\ conf[ev'[k].a][1].steps = conf[ev'[k].a][1].n + 1
                  /\ ~Happened(ev', "move_by")
                  /\ ObjOf(objects', ev'[k].a).ai = <<conf[ev'[k].a][1].ai>>]_vars

\* A confused monster has just reverted to Basic.
C5_Witness ==
    \E k \in DOMAIN ev :
        /\ ev[k].e = "revert"
        /\ ObjOf(objects, ev[k].a).ai = <<[kind |-> "Basic"]>>

\* The positions of the entities, by uid.
Positions(objs) == {<<objs[k].uid, objs[k].x, objs[k].y>> : k \in DOMAIN objs}

\* C6: monster AI steps run only after the player's action is resolved, and
\* only if it was TookTurn with the player alive after it; in an iteration
\* whose action is DidNotTakeTurn no monster is stepped, moves or attacks and
\* no confusion counter changes.
C6_MonstersAfterPlayer ==
    /\ [][Happened(ev', "ai_take_turn") =>
              pc = "monsters" /\ player_action = "TookTurn"]_vars
    /\ [][pc # "monsters" /\ pc' = "monsters" =>
              /\ pc = "keys"
              /\ player_action' = "TookTurn"
              /\ objects'[1].alive]_vars
    /\ [][pc = "keys" /\ player_action' = "DidNotTakeTurn" =>
              /\ pc' = "render"
              /\ stepped' = <<>>
              /\ ~Happened(ev', "ai_take_turn")
              /\ ~Happened(ev', "attack")
              /\ ~Happened(ev', "confused_step")
              /\ Positions(objects') \subseteq Positions(objects)]_vars

\* An item was used (no turn taken) while a monster with an AI was present,
\* and the loop is back at its head.
C6_Witness ==
    /\ pc = "render"
    /\ player_action = "DidNotTakeTurn"
    /\ Happened(ev, "UsedUp")
    /\ \E k \in DOMAIN objects : objects[k].ai # <<>>

\* The uids of the objects of s that have an AI, in the order of s.
RECURSIVE AiUids(_)
AiUids(s) ==
    IF s = <<>> THEN <<>>
    ELSE (IF Head(s).ai # <<>> THEN <<Head(s).uid>> ELSE <<>>) \o AiUids(Tail(s))

\* C7: in a turn in which monsters act, each entity that has an AI when the
\* monster phase starts is stepped exactly once, in ascending index order, and
\* the player (slot 0) is never stepped.
C7_EachMonsterOnce ==
    /\ [](stepped = AiUids(SubSeq(objects, 1, id)))
    /\ [](\A k \in DOMAIN stepped : stepped[k] # objects[1].uid)
    /\ [][pc = "monsters" => AiUids(objects') = AiUids(objects)]_vars
    /\ [][pc = "monsters" /\ pc' # "monsters" => stepped' = AiUids(objects')]_vars

\* A monster phase has ended in which two monsters were stepped.
C7_Witness ==
    /\ pc = "render"
    /\ player_action = "TookTurn"
    /\ Len(stepped) = 2
    /\ stepped = AiUids(objects)

\* C8: the order in which AI entities act is stable over the session: if A is
\* stepped before B in some turn, A is stepped before B in every later turn in
\* which both are stepped, also after an item pick-up.
C8_StableOrder == \A p \in order : <<p[2], p[1]>> \notin order

\* C9: slot 0 of the entity collection always holds the player entity.
C9_PlayerAtSlotZero ==
    /\ Len(objects) >= 1
    /\ objects[1].uid = 0
    /\ objects[1].name = "player"
    /\ objects[1].fighter # <<>>
    /\ objects[1].fighter[1].on_death = "Player"

\* A pick-up has removed an entity that stood before other entities of the
\* collection.
C9_Witness ==
    \E k \in DOMAIN ev :
        /\ ev[k].e = "pick_item_up"
        /\ ~HasUid(objects, ev[k].a)
        /\ ev[k].n < Len(objects)

\* The use of the Heal item at inventory index i with result `result`.
HealAsClaimed(i, result) ==
    LET f == objects[1].fighter[1]
        g == objects'[1].fighter[1]
    IN  IF f.hp < f.max_hp
        THEN /\ result = "UsedUp"
             /\ g.hp = (IF f.hp + 4 < f.max_hp THEN f.hp + 4 ELSE f.max_hp)
        ELSE /\ result = "Cancelled"
             /\ g.hp = f.hp
             /\ inventory' = inventory
             /\ Len(messages') >= 1

\* C10: the player's hp never exceeds max_hp; a Heal item used with
\* hp < max_hp sets hp to min(hp + HEAL_AMOUNT, max_hp) and is UsedUp; used
\* with hp = max_hp it is Cancelled, hp and inventory stay and a message is
\* logged.
C10_Heal ==
    /\ [](objects[1].fighter[1].hp <= objects[1].fighter[1].max_hp)
    /\ [][\A k \in DOMAIN ev' :
            (/\ ev'[k].e \in {"UsedUp", "Cancelled"}
             /\ inventory[ev'[k].n + 1].item = <<"Heal">>)
                => HealAsClaimed(ev'[k].n, ev'[k].e)]_vars

\* A Heal item was used up and the player's hp stands at max_hp: the amount
\* was clamped.
C10_Witness ==
    /\ Happened(ev, "heal")
    /\ Happened(ev, "UsedUp")
    /\ objects[1].fighter[1].hp = objects[1].fighter[1].max_hp

\* The sequence inv without its entry at the 0-based index i.
RemovedAt(inv, i) ==
    [k \in 1 .. (Len(inv) - 1) |-> IF k <= i THEN inv[k] ELSE inv[k + 1]]

\* No entity but the player has a Fighter and an AI, stands in the field of
\* view and is within `range` of the player.
NoEligibleTarget(range) ==
    ~\E k \in 2 .. Len(objects) :
        /\ objects[k].fighter # <<>>
        /\ objects[k].ai # <<>>
        /\ <<objects[k].x, objects[k].y>> \in fov
        /\ (objects[k].x - objects[1].x) * (objects[k].x - objects[1].x)
             + (objects[k].y - objects[1].y) * (objects[k].y - objects[1].y)
               <= range * range

\* The range constant of a targeted item kind.
RangeOf(kind) == IF kind = "Lightning" THEN 5 ELSE 8

Overlap(a, b) == a.x1 <= b.x2 /\ a.x2 >= b.x1 /\ a.y1 <= b.y2 /\ a.y2 >= b.y1

\* C12: in every run of map generation no two accepted rooms satisfy the
\* overlap predicate, and a candidate that overlaps a previously accepted
\* room is skipped without carving tiles, placing entities or digging a
\* tunnel.
C12_RoomsDisjoint ==
    /\ [](\A i \in DOMAIN rooms : \A j \in DOMAIN rooms :
            i # j => ~Overlap(rooms[i], rooms[j]))
    /\ [][\A k \in DOMAIN ev' :
            (/\ ev'[k].e = "new_room"
             /\ \E j \in DOMAIN rooms : Overlap(ev'[k].a, rooms[j]))
                => /\ map' = map
                   /\ objects' = objects
                   /\ rooms' = rooms
                   /\ tunnels' = tunnels]_vars

\* A candidate that touches the accepted room only along an edge was skipped.
C12_Witness ==
    /\ Len(rooms) = 1
    /\ \E k \in DOMAIN ev :
          /\ ev[k].e = "new_room"
          /\ ev[k].n = 1
          /\ Overlap(ev[k].a, rooms[1])
          /\ (ev[k].a.x1 = rooms[1].x2 \/ ev[k].a.x2 = rooms[1].x1)

\* The tile t lies strictly inside the rectangle r.
StrictlyInside(t, r) == r.x1 < t[1] /\ t[1] < r.x2 /\ r.y1 < t[2] /\ t[2] < r.y2

\* The tile t lies on the tunnel segment g.
OnSegment(t, g) ==
    LET lo == IF g.a <= g.b THEN g.a ELSE g.b
        hi == IF g.a <= g.b THEN g.b ELSE g.a
    IN  IF g.kind = "h"
        THEN t[2] = g.c /\ lo <= t[1] /\ t[1] <= hi
        ELSE t[1] = g.c /\ lo <= t[2] /\ t[2] <= hi

\* The tile t was carved: it is inside an accepted room or on a tunnel.
Carved(t) ==
    \/ \E k \in DOMAIN rooms : StrictlyInside(t, rooms[k])
    \/ \E k \in DOMAIN tunnels : OnSegment(t, tunnels[k])

\* C13: after map generation a tile is non-blocking and non-sight-blocking if
\* and only if it lies strictly inside an accepted room or on a carved tunnel
\* segment; every other tile is a wall with blocked = block_sight = TRUE.
C13_CarvedTiles ==
    pc \in {"make_map", "made"} =>
        \A t \in DOMAIN map :
            map[t] = IF Carved(t)
                     THEN [blocked |-> FALSE, block_sight |-> FALSE]
                     ELSE [blocked |-> TRUE, block_sight |-> TRUE]

\* Generation is over with two rooms, and a tunnel tile lies outside both.
C13_Witness ==
    /\ pc = "made"
    /\ Len(rooms) = 2
    /\ \E t \in DOMAIN map :
          /\ ~map[t].blocked
          /\ \A k \in DOMAIN rooms : ~StrictlyInside(t, rooms[k])
          /\ \E k \in DOMAIN tunnels : OnSegment(t, tunnels[k])

\* The map m with exactly the tiles of the inclusive range of g cleared.
RangeCleared(m, g) ==
    [t \in DOMAIN m |->
        IF OnSegment(t, g) THEN [blocked |-> FALSE, block_sight |-> FALSE] ELSE m[t]]

\* C19: tunnel carving is symmetric in its endpoints: create_h_tunnel(a, b, y)
\* and create_h_tunnel(b, a, y) clear exactly the same tiles, all x with
\* min(a, b) <= x <= max(a, b), likewise create_v_tunnel, and no tile outside
\* that range is modified.
C19_TunnelSymmetric ==
    [][pc = "tunnel" /\ pc' = "dug" =>
          LET g == tunnels'[1]
          IN  /\ map' = RangeCleared(map, g)
              /\ g.kind = "h" => create_h_tunnel(g.b, g.a, g.c, map) = map'
              /\ g.kind = "v" => create_v_tunnel(g.b, g.a, g.c, map) = map']_vars

\* A horizontal tunnel was dug from a larger to a smaller x through walls.
C19_Witness ==
    /\ pc = "dug"
    /\ tunnels[1].kind = "h"
    /\ tunnels[1].a > tunnels[1].b + 1
    /\ \A x \in tunnels[1].b .. tunnels[1].a : ~map[<<x, tunnels[1].c>>].blocked
    /\ map[<<0, 0>>].blocked

\* The entity o as a corpse, as the claim describes it; the colour is free.
IsCorpseOf(c, o) ==
    /\ c.uid = o.uid
    /\ c.x = o.x
    /\ c.y = o.y
    /\ c.alive = FALSE
    /\ c.blocks = FALSE
    /\ c.fighter = <<>>
    /\ c.ai = <<>>
    /\ c.char = "%"
    /\ c.name = "remains of " \o o.name
    /\ c.item = o.item

\* C14: when a Monster-tagged entity's hp drops to <= 0 it stays in the
\* collection at the same index and position and afterwards has alive = FALSE,
\* blocks = FALSE, no Fighter, no AI, the glyph '%' and the name 'remains of '
\* followed by its former name; a death message is appended to the log and no
\* other entity changes.
C14_MonsterDeath ==
    [][\A k \in DOMAIN ev' :
          ev'[k].e = "on_death" /\ ev'[k].a # 0 =>
              \E j \in DOMAIN objects :
                  /\ objects[j].uid = ev'[k].a
                  /\ objects[j].fighter # <<>>
                  /\ objects[j].fighter[1].on_death = "Monster"
                  /\ \E n \in DOMAIN ev' :
                        ev'[n].e = "take_damage" /\ ev'[n].a = ev'[k].a /\ ev'[n].n <= 0
                  /\ Len(objects') = Len(objects)
                  /\ IsCorpseOf(objects'[j], objects[j])
                  /\ \A i \in DOMAIN objects : i # j => objects'[i] = objects[i]
                  /\ \E n \in DOMAIN messages' :
                        messages'[n] = [fmt |-> "{} is dead!", args |-> <<objects[j].name>>]]_vars

\* A monster has just died next to the player and lies where it stood, with
\* another monster still alive.
C14_Witness ==
    \E k \in DOMAIN ev :
        /\ ev[k].e = "on_death"
        /\ ev[k].a # 0
        /\ \E j \in DOMAIN objects :
              /\ objects[j].uid = ev[k].a
              /\ objects[j].char = "%"
              /\ ~objects[j].blocks
              /\ objects[j].name \in {"remains of orc", "remains of troll"}
        /\ \E j \in DOMAIN objects : objects[j].ai # <<>>

\* The 1-based indices of the entities with a Fighter on the tile `dest`.
FightersOn(dest) ==
    {j \in DOMAIN objects : objects[j].fighter # <<>> /\ <<objects[j].x, objects[j].y>> = dest}

\* The step resolved the intent (dx, dy) as the claim says.
ResolvedAsClaimed(dx, dy) ==
    LET dest == <<objects[1].x + dx, objects[1].y + dy>>
        F == FightersOn(dest)
    IN  IF F # {}
        THEN LET j == CHOOSE m \in F : \A n \in F : m <= n
             IN  /\ \E k \in DOMAIN ev' :
                       /\ ev'[k].e = "attack"
                       /\ ev'[k].a = 0
                       /\ ev'[k].b = objects[j].uid
                 /\ Cardinality({k \in DOMAIN ev' : ev'[k].e = "attack"}) = 1
                 /\ \A k \in DOMAIN ev' : ev'[k].e \notin {"move_by", "set_pos"}
                 /\ <<objects'[1].x, objects'[1].y>> = <<objects[1].x, objects[1].y>>
        ELSE /\ \E k \in DOMAIN ev' :
                   /\ ev'[k].e = "move_by"
                   /\ ev'[k].a = 0
                   /\ ev'[k].b = dx
                   /\ ev'[k].n = dy
             /\ Cardinality({k \in DOMAIN ev' : ev'[k].e = "move_by"}) = 1
             /\ \A k \in DOMAIN ev' : ev'[k].e \notin {"attack", "take_damage"}
             /\ Len(objects') = Len(objects)
             /\ \A j \in DOMAIN objects : objects'[j].fighter = objects[j].fighter

\* C15: a directional player intent (dx, dy) # (0, 0) is resolved as an attack
\* on the first entity with a Fighter on the destination tile, the player's
\* position unchanged, if there is such an entity, and otherwise as move_by on
\* the player with no entity's hp changed; an attack and a move never both
\* happen in one action.
C15_MoveOrAttack ==
    [][pc = "keys" /\ player_action' = "TookTurn" =>
          \E dx \in {-1, 0, 1}, dy \in {-1, 0, 1} :
              <<dx, dy>> # <<0, 0>> /\ ResolvedAsClaimed(dx, dy)]_vars

\* The player has attacked a monster that survived the blow, and stands where
\* it stood.
C15_Witness ==
    /\ pc = "monsters"
    /\ id = 0
    /\ \E k \in DOMAIN ev :
          /\ ev[k].e = "attack"
          /\ ev[k].a = 0
          /\ ev[k].n > 0
          /\ \E j \in DOMAIN objects :
                /\ objects[j].uid = ev[k].b
                /\ objects[j].fighter # <<>>
                /\ objects[j].fighter[1].hp > 0
    /\ <<objects[1].x, objects[1].y>> = previous_player_position

\* The entity with uid u is, before the step, a target the claim allows for a
\* scroll of the given range.
TargetAsClaimed(u, range) ==
    \E j \in DOMAIN objects :
        /\ objects[j].uid = u
        /\ j # 1
        /\ objects[j].fighter # <<>>
        /\ objects[j].ai # <<>>
        /\ <<objects[j].x, objects[j].y>> \in fov
        /\ (objects[j].x - objects[1].x) * (objects[j].x - objects[1].x)
             + (objects[j].y - objects[1].y) * (objects[j].y - objects[1].y)
               <= range * range

\* C16: whenever Lightning (range 5) or Confuse (range 8) affects an entity,
\* that entity is not the player, has a Fighter and an AI, lies in the current
\* field of view, and its distance from the player is at most the item's
\* range (dx^2 + dy^2 <= range^2).
C16_TargetInRange ==
    [][\A k \in DOMAIN ev' :
          /\ ev'[k].e = "lightning" => TargetAsClaimed(ev'[k].a, 5)
          /\ ev'[k].e = "confuse" => TargetAsClaimed(ev'[k].a, 8)]_vars

\* The step in which the player's death callback runs leaves the player at
\* slot 0 on its tile, not alive, with the corpse glyph.
PlayerDiesInPlace ==
    (\E k \in DOMAIN ev' : ev'[k].e = "on_death" /\ ev'[k].a = 0) =>
        /\ \E k \in DOMAIN ev' : ev'[k].e = "take_damage" /\ ev'[k].a = 0 /\ ev'[k].n <= 0
        /\ objects'[1].uid = 0
        /\ <<objects'[1].x, objects'[1].y>> = <<objects[1].x, objects[1].y>>
        /\ objects'[1].alive = FALSE
        /\ objects'[1].char = "%"

\* In the loop iterations after the player's death nothing changes and no
\* monster acts.
FrozenAfterDeath ==
    (~objects[1].alive /\ pc \in {"render", "keys"}) =>
        /\ objects' = objects
        /\ inventory' = inventory
        /\ pc' # "monsters"
        /\ \A k \in DOMAIN ev' : ev'[k].e # "ai_take_turn"

\* The loop ends in this step, the player being dead.
EndsAfterDeath == ~objects[1].alive /\ pc # "done" /\ pc' = "done"

\* C17 as stated: when the player's hp drops to <= 0 the player stays at slot
\* 0 at its position with alive = FALSE and the corpse glyph; in every later
\* loop iteration no entity's position, hp or AI state, nor the collection or
\* the inventory, changes, monsters no longer act, and only Exit ends the
\* loop.
C17_OnlyExitEnds ==
    [][/\ PlayerDiesInPlace
       /\ FrozenAfterDeath
       /\ EndsAfterDeath => player_action' = "Exit"]_vars

\* C17, amended: as above, but the loop ends either by Exit or by the window
\* being closed (the loop condition of main).
C17_DeadPlayerFrozen ==
    [][/\ PlayerDiesInPlace
       /\ FrozenAfterDeath
       /\ EndsAfterDeath =>
             \/ pc = "keys" /\ player_action' = "Exit"
             \/ pc = "render" /\ player_action' = player_action]_vars

\* The player died in an earlier iteration, a key was ignored since, and the
\* loop is at its head again with a monster still able to act.
C17_Witness ==
    /\ ~objects[1].alive
    /\ objects[1].char = "%"
    /\ deaths[0] = 1
    /\ pc = "render"
    /\ player_action = "DidNotTakeTurn"
    /\ ev = <<>>
    /\ \E j \in DOMAIN objects : objects[j].ai # <<>>

\* The 1-based indices of the item entities on the player's tile.
ItemsHere ==
    {j \in DOMAIN objects :
        /\ objects[j].item # <<>>
        /\ <<objects[j].x, objects[j].y>> = <<objects[1].x, objects[1].y>>}

\* The entities of a collection, as a set.
Entities(objs) == {objs[k] : k \in DOMAIN objs}

\* C18: a pick-up with fewer than 26 inventory entries and an item on the
\* player's tile removes exactly one entity from the collection, the first
\* item in collection order on the player's tile, and appends it as the last
\* inventory entry; every other entity stays in the collection with all its
\* fields unchanged and a confirmation is logged.  With no item on the
\* player's tile nothing is picked up.
C18_PickUp ==
    /\ [][(Happened(ev', "pick_item_up") /\ Len(inventory) < 26) =>
            /\ ItemsHere # {}
            /\ LET j == CHOOSE m \in ItemsHere : \A n \in ItemsHere : m <= n
               IN  /\ \A k \in DOMAIN ev' :
                         ev'[k].e = "pick_item_up" => ev'[k].a = objects[j].uid
                   /\ inventory' = Append(inventory, objects[j])
                   /\ Len(objects') = Len(objects) - 1
                   /\ Entities(objects') = Entities(objects) \ {objects[j]}
                   /\ Logged(messages', "You picked up a {}!")]_vars
    /\ [][(pc = "keys" /\ ItemsHere = {}) =>
            /\ ~Happened(ev', "pick_item_up")
            /\ Len(inventory') <= Len(inventory)
            /\ Len(objects') = Len(objects)]_vars

\* The first of two items on the player's tile was picked up; the second is
\* still there.
C18_Witness ==
    /\ \E k \in DOMAIN ev :
          /\ ev[k].e = "pick_item_up"
          /\ inventory # <<>>
          /\ inventory[Len(inventory)].uid = ev[k].a
          /\ \E j \in DOMAIN objects :
                /\ objects[j].item # <<>>
                /\ objects[j].uid > ev[k].a
                /\ <<objects[j].x, objects[j].y>> = <<objects[1].x, objects[1].y>>

\* The events of the given kind in a list of events.
EventsOf(events, e) == {k \in DOMAIN events : events[k].e = e}

\* One Basic AI step of the monster at the 1-based index j, as the claim's
\* decision table has it.
BasicStepAsClaimed(j) ==
    LET monster == objects[j]
        player == objects[1]
        d2 == (player.x - monster.x) * (player.x - monster.x)
                + (player.y - monster.y) * (player.y - monster.y)
    IN  /\ objects'[j].ai = <<[kind |-> "Basic"]>>
        /\ Len(objects') = Len(objects)
        /\ \A i \in DOMAIN objects : i \notin {1, j} => objects'[i] = objects[i]
        /\ IF <<monster.x, monster.y>> \notin fov
           THEN /\ objects' = objects
                /\ EventsOf(ev', "move_by") = {}
                /\ EventsOf(ev', "attack") = {}
           ELSE IF d2 >= 4
           THEN /\ Cardinality(EventsOf(ev', "move_by")) = 1
                /\ \A k \in EventsOf(ev', "move_by") :
                      /\ ev'[k].a = monster.uid
                      /\ ev'[k].b \in {-1, 0, 1}
                      /\ ev'[k].n \in {-1, 0, 1}
                      /\ <<ev'[k].b, ev'[k].n>> # <<0, 0>>
                      /\ ev'[k].b * (player.x - monster.x) >= 0
                      /\ ev'[k].n * (player.y - monster.y) >= 0
                      /\ \/ objects'[j] = monster
                         \/ objects'[j] = [monster EXCEPT !.x = @ + ev'[k].b,
                                                          !.y = @ + ev'[k].n]
                /\ EventsOf(ev', "attack") = {}
                /\ objects'[1] = player
           ELSE /\ EventsOf(ev', "move_by") = {}
                /\ objects'[j] = monster
                /\ IF player.fighter # <<>> /\ player.fighter[1].hp > 0
                   THEN /\ Cardinality(EventsOf(ev', "attack")) = 1
                        /\ \A k \in EventsOf(ev', "attack") :
                              ev'[k].a = monster.uid /\ ev'[k].b = player.uid
                   ELSE /\ EventsOf(ev', "attack") = {}
                        /\ objects'[1] = player

\* C20: one Basic AI step does nothing if the monster's tile is not in the
\* field-of-view set; if it is and the squared distance to the player is >= 4
\* it performs exactly one move_towards step and attacks nobody; if it is and
\* the distance is < 2.0 it attacks the player iff the player's hp > 0 and
\* does not move.  The resulting AI state is Basic in all cases.
C20_BasicAi ==
    [][\A k \in DOMAIN ev' :
          ev'[k].e = "ai_take_turn" =>
              \A j \in DOMAIN objects :
                  (objects[j].uid = ev'[k].a /\ objects[j].ai = <<[kind |-> "Basic"]>>)
                      => BasicStepAsClaimed(j)]_vars

\* A Basic monster out of the field of view was stepped and did nothing,
\* although the player is alive and on a tile it could walk towards.
C20_Witness ==
    /\ pc = "stepped"
    /\ \E k \in DOMAIN ev : ev[k].e = "ai_take_turn" /\ ev[k].a = 1
    /\ <<objects[2].x, objects[2].y>> \notin fov
    /\ objects[1].alive
    /\ objects[2].ai = <<[kind |-> "Basic"]>>
    /\ ev = <<[e |-> "ai_take_turn", a |-> 1, b |-> -1, n |-> 1]>>

\* The step queries the field-of-view set: a Basic monster is stepped, or a
\* scroll of lightning or confusion is used.
FovQueried ==
    \/ \E k \in DOMAIN ev' :
          /\ ev'[k].e = "ai_take_turn"
          /\ \E j \in DOMAIN objects :
                objects[j].uid = ev'[k].a /\ objects[j].ai = <<[kind |-> "Basic"]>>
    \/ \E k \in DOMAIN ev' :
          /\ ev'[k].e \in {"UsedUp", "Cancelled"}
          /\ inventory[ev'[k].n + 1].item \in {<<"Lightning">>, <<"Confuse">>}

\* C21: whenever the field-of-view set is queried by the simulation, the
\* origin of the last FOV computation equals the player's position at the
\* moment of the query, including in the monster phase of a turn in which the
\* player has just moved.
C21_FovCurrent ==
    [][FovQueried => fov_origin = <<objects[1].x, objects[1].y>>]_vars

\* C22: when an item effect returns Cancelled, the step appends exactly one
\* message to the log (the effect's specific reason, or else the generic
\* notice), and leaves the inventory untouched.
C22_OneCancelMessage ==
    [][Happened(ev', "Cancelled") => Len(messages') = 1 /\ inventory' = inventory]_vars

\* The step resolves an invalid-but-expected intent of the player: a refused
\* move, an attack without effect, an item use without a valid target, or a
\* pick-up with a full inventory.
InvalidIntent ==
    /\ pc = "keys"
    /\ \/ /\ Count(ev', "move_by", objects[1].uid) > 0
          /\ Count(ev', "set_pos", objects[1].uid) = 0
       \/ \E k \in DOMAIN ev' :
             ev'[k].e = "attack" /\ ev'[k].a = objects[1].uid /\ ev'[k].n <= 0
       \/ Happened(ev', "Cancelled")
       \/ Happened(ev', "pick_item_up") /\ Len(inventory) >= INVENTORY_CAPACITY

\* The position and hp of every entity, in slot order.
PositionsAndHp(objs) ==
    [k \in DOMAIN objs |->
        <<objs[k].uid, objs[k].x, objs[k].y,
          IF is_some(objs[k].fighter) THEN Some(unwrap(objs[k].fighter).hp) ELSE None>>]

\* C23: each invalid-but-expected player intent leaves every entity's
\* position and hp and the inventory unchanged and appends at least one
\* message to the message log.
C23_InvalidIntentLogged ==
    [][InvalidIntent =>
          /\ PositionsAndHp(objects') = PositionsAndHp(objects)
          /\ inventory' = inventory
          /\ Len(messages') >= 1]_vars

\* No two distinct entities with blocks = true stand on the same tile.
BlockersApart(objs) ==
    \A i, j \in DOMAIN objs :
        i # j /\ objs[i].blocks /\ objs[j].blocks => pos(objs[i]) # pos(objs[j])

\* C24: from the end of map generation on, no two distinct entities with
\* blocks = true are located on the same tile.
C24_BlockersApart == pc # "make_map" => BlockersApart(objects)

\* ------------------------------------------ generation and play together

\* main (lines 1066-1160): make_map, then the game loop. Generation runs
\* from the all-wall grid; play runs from the sessions.
ProgramInit == MakeMapInit \/ Init

ProgramNext == MakeRoom \/ Next

SpecProgram == ProgramInit /\ [][ProgramNext]_vars

MapWidthOf(m) == Cardinality({t[1] : t \in DOMAIN m})
MapHeightOf(m) == Cardinality({t[2] : t \in DOMAIN m})

\* The tile lies on the outer border of the grid.
OnBorder(t, m) ==
    \/ t[1] = 0 \/ t[1] = MapWidthOf(m) - 1
    \/ t[2] = 0 \/ t[2] = MapHeightOf(m) - 1

\* C25: after map generation every tile on the outer border of the grid is a
\* wall, every entity of the collection stands on a non-border tile inside
\* the grid, and so every position plus an offset in {-1,0,1} per axis is a
\* tile of the map.
C25_BorderWalls ==
    pc # "make_map" =>
        /\ \A t \in DOMAIN map : OnBorder(t, map) => map[t] = Tile_wall
        /\ \A k \in DOMAIN objects :
              /\ pos(objects[k]) \in DOMAIN map
              /\ ~OnBorder(pos(objects[k]), map)
              /\ \A d \in (-1 .. 1) \X (-1 .. 1) :
                    <<objects[k].x + d[1], objects[k].y + d[2]>> \in DOMAIN map

\* Generation has ended with two rooms, one of them flush with the right and
\* bottom edges of the grid, and an entity on the tile next to that corner.
C25_Witness ==
    /\ pc = "made"
    /\ Len(rooms) = 2
    /\ \E k \in DOMAIN rooms :
          /\ rooms[k].x2 = MapWidthOf(map) - 1
          /\ rooms[k].y2 = MapHeightOf(map) - 1
    /\ \E k \in DOMAIN objects :
          pos(objects[k]) = <<MapWidthOf(map) - 2, MapHeightOf(map) - 2>>

\* The tiles reachable from the set S by steps between 4-directionally
\* adjacent non-blocked tiles of m.
RECURSIVE Reach(_, _)
Reach(S, m) ==
    LET N == S \cup {t \in DOMAIN m :
                        /\ ~m[t].blocked
                        /\ \E s \in S :
                              \/ (s[1] = t[1] /\ s[2] - t[2] \in {-1, 1})
                              \/ (s[2] = t[2] /\ s[1] - t[1] \in {-1, 1})}
    IN  IF N = S THEN S ELSE Reach(N, m)

\* C26: during and after map generation the carved floor is connected: the
\* player stands on the center of the first accepted room, and from there
\* every interior tile of every accepted room and every tunnel tile is
\* reachable by a path of 4-directionally adjacent non-blocked tiles.
C26_FloorConnected ==
    rooms # <<>> =>
        /\ pos(objects[1]) = center(rooms[1])
        /\ ~map[pos(objects[1])].blocked
        /\ \A t \in DOMAIN map : Carved(t) => t \in Reach({pos(objects[1])}, map)

\* Generation has ended with two rooms whose centers differ in both
\* coordinates, joined by a tunnel that went vertically first.
C26_Witness ==
    /\ pc = "made"
    /\ Len(rooms) = 2
    /\ center(rooms[1])[1] # center(rooms[2])[1]
    /\ center(rooms[1])[2] # center(rooms[2])[2]
    /\ Len(tunnels) = 2
    /\ tunnels[1].kind = "v"

\* C27: each two-party mutable access of a step (the player attacking a
\* target, a monster attacking the player) is made with two distinct indices
\* inside the entity collection, the first of which is not the player's, so
\* mut_two never panics; every attack of the step goes through one.
C27_MutTwo ==
    [][/\ ~Happened(ev', "panic")
       /\ \A k \in EventsOf(ev', "mut_two") :
             /\ ev'[k].a # ev'[k].b
             /\ ev'[k].a \in 1 .. (ev'[k].n - 1)
             /\ ev'[k].b = PLAYER
             /\ ev'[k].n = Len(objects)
       /\ Cardinality(EventsOf(ev', "attack")) = Cardinality(EventsOf(ev', "mut_two"))]_vars

\* An attack has just been made through mut_two with the last slot of a
\* collection of at least three entities as the first index.
C27_Witness ==
    /\ Len(objects) >= 3
    /\ \E k \in EventsOf(ev, "mut_two") :
          ev[k].a = Len(objects) - 1 /\ ev[k].b = PLAYER
    /\ EventsOf(ev, "attack") # {}

\* The entity is a monster that has not died: it has a Fighter tagged Monster.
LivingMonster(o) == is_some(o.fighter) /\ unwrap(o.fighter).on_death = "Monster"

\* C28: between the steps of the loop an entity has an AI component if and
\* only if it is a monster that has not died; the player, the items on the
\* floor and in the inventory, and dead monsters have none.
C28_AiIffLivingMonster ==
    /\ \A k \in DOMAIN objects : is_some(objects[k].ai) <=> LivingMonster(objects[k])
    /\ objects[1].ai = None
    /\ \A k \in DOMAIN objects : is_some(objects[k].item) => objects[k].ai = None
    /\ \A k \in DOMAIN inventory : inventory[k].ai = None

\* A turn has ended whose last step took a monster's AI out and put it back
\* as a Confused state.
C28_Witness ==
    /\ pc = "render"
    /\ \E k \in EventsOf(ev, "ai_take_turn") :
          \E j \in DOMAIN objects :
             /\ objects[j].uid = ev[k].a
             /\ is_some(objects[j].ai)
             /\ unwrap(objects[j].ai).kind = "Confused"

\* The entity has no living role: it is an item, or the remains of a monster.
NoLivingRole(o) == is_some(o.item) \/ (o.char = "%" /\ o.uid # objects[1].uid)

session_nested ==
    [objects |-> <<player_at_start(1), new_orc(1, 1, 1, 5)>>,
     inventory |-> <<new_item(10, 0, 0, "Confuse"), new_item(11, 0, 0, "Confuse")>>]

NestedInit ==
    /\ map = start_map
    /\ objects = session_nested.objects
    /\ inventory = session_nested.inventory
    /\ messages = <<Msg("Welcome stranger! Prepare to perish in the Tombs of the Ancient Kings!", <<>>)>>
    /\ fov = {}
    /\ fov_origin = <<-1, -1>>
    /\ previous_player_position = <<-1, -1>>
    /\ player_action = "DidNotTakeTurn"
    /\ pc = "render"
    /\ id = 0
    /\ ev = NoEv
    /\ deaths = [u \in Uids(session_nested) |-> 0]
    /\ stepped = <<>>
    /\ order = {}
    /\ conf = [u \in Uids(session_nested) |-> None]
    /\ rooms = <<first_room>>
    /\ tunnels = <<>>

\* handle_keys, the Up key (line 818): player_move_or_attack(0, -1).
KeyUp ==
    /\ pc = "keys"
    /\ player_alive
    /\ Commit(player_move_or_attack(World, map, 0, -1))
    /\ AfterKeys("TookTurn")

\* The game loop played with the Up key and the inventory only.
NestedNext ==
    \/ Render
    \/ KeyUp
    \/ KeyInventory
    \/ MonsterStep

\* The loop with its own scheduling: once handle_keys has returned, the
\* monster loop runs to its end (lines 1151-1157) and the next iteration
\* renders (lines 1127-1143) without waiting for anything. The player keeps
\* taking turns: as long as a turn can be taken again and again, the Up key
\* is pressed again and again.
SpecNested ==
    /\ NestedInit /\ [][NestedNext]_vars
    /\ WF_vars(MonsterStep) /\ WF_vars(Render)
    /\ SF_vars(KeyUp)

\* The AI of the entity u is a confusion wrapped around a confusion.
NestedConfusion(u) ==
    /\ is_some(AiOf(objects, u))
    /\ unwrap(AiOf(objects, u)).kind = "Confused"
    /\ unwrap(AiOf(objects, u)).previous_ai.kind = "Confused"

\* A step that confuses u wraps exactly the AI u had before the step.
NestsWithoutLoss(u) ==
    Count(ev', "confuse", u) > 0 =>
        /\ is_some(AiOf(objects, u))
        /\ AiOf(objects', u) = Some(Ai_Confused(unwrap(AiOf(objects, u)), CONFUSE_NUM_TURNS))

\* The entity that session_nested's scrolls can confuse.
NestedOrc == session_nested.objects[2].uid

\* C30: confusing a monster that is Confused{A, k} yields
\* Confused{Confused{A, k}, CONFUSE_NUM_TURNS}; and while the player keeps
\* taking turns, a monster with a nested confusion that is not confused again
\* eventually is back in the Basic state or has died: it is never left
\* Confused forever or without an AI.
C30_NestedConfusionEnds ==
    /\ [][\A u \in DOMAIN conf : NestsWithoutLoss(u)]_vars
    /\ NestedConfusion(NestedOrc) ~>
          (AiOf(objects, NestedOrc) = Some(Ai_Basic) \/ Count(ev, "on_death", NestedOrc) > 0)

\* The outer confusion of the orc has just expired and the inner one has
\* resumed from its own counter.
C30_Witness ==
    \E u \in DOMAIN conf :
        /\ Count(ev, "revert", u) > 0
        /\ is_some(AiOf(objects, u))
        /\ unwrap(AiOf(objects, u)).kind = "Confused"
        /\ unwrap(AiOf(objects, u)).previous_ai = Ai_Basic
        /\ unwrap(AiOf(objects, u)).num_turns < CONFUSE_NUM_TURNS - 1

====
